---- MODULE Spec2Model ----
(***************************************************************************)
(* State-machine model of the caching proxy: the LRUCache (doubly linked   *)
(* list + index map + byte counter, serialised by a promise-chain mutex)   *)
(* and the /proxy request pipeline of ProxyServer that consults and        *)
(* populates it.                                                           *)
(*                                                                         *)
(* Strings are TLA+ strings; a Buffer of n equal bytes b is the record     *)
(* [fill |-> b, length |-> n]; CacheElement objects live in heap cells     *)
(* 1..MaxNodes and 0 stands for null.  Date.now() stamps are never read by *)
(* the code; only their order is kept (lruTimeTrack).                      *)
(***************************************************************************)
EXTENDS Integers, Sequences, FiniteSets, TLC

VARIABLES
    head,          \* LRUCache.head  (node id, 0 = null)
    tail,          \* LRUCache.tail
    heap,          \* the CacheElement objects: node id -> [url, data, next, prev]
    cacheMap,      \* LRUCache.cacheMap: url -> node id
    cacheSize,     \* LRUCache.cacheSize
    maxSize,       \* LRUCache.maxSize (readonly, set from CONFIG.CACHE_SIZE)
    hits,          \* LRUCache.hits
    misses,        \* LRUCache.misses
    lruTimeTrack,  \* linked or indexed nodes by decreasing element.lruTimeTrack stamp
    mutex,         \* LRUCache.mutex: the chain of lock() calls not yet settled
    fresh,         \* history: url -> the element the latest admitted add(data, url)
                   \*          created, while no removeLRU / clear has destroyed it
    finds,         \* history: find calls whose function has run since the last clear
    server,        \* ProxyServer: isRunning, the state of the listener, events emitted
    requests,      \* the /proxy requests being handled, one record per connection slot
    served,        \* history: targetUrl -> body of a completed admitted miss, no add since
    localStorage   \* the browser's localStorage: key -> item (NoItem = no such key)

vars == <<head, tail, heap, cacheMap, cacheSize, maxSize, hits, misses, lruTimeTrack,
          mutex, fresh, finds, server, requests, served, localStorage>>

cacheVars == <<head, tail, heap, cacheMap, cacheSize, maxSize, hits, misses,
               lruTimeTrack, fresh, finds>>

-----------------------------------------------------------------------------
(* Bounds of the model *)

MaxNodes == 3          \* heap cells for CacheElement objects
MaxQueue == 2          \* lock() calls that may be pending on the mutex at once
MaxFinds == 2          \* cap on hits + misses between two clear calls
CacheSizeUnits == 47   \* CONFIG.CACHE_SIZE, scaled down from 200 MiB
MaxElementUnits == 24  \* CONFIG.MAX_ELEMENT_SIZE, scaled down from 10 MiB
TightSizeUnits == 25   \* CONFIG.CACHE_SIZE scaled down to just above the largest element

maxElementSize == MaxElementUnits

Nodes == 1..MaxNodes

NoData == [fill |-> 0, length |-> 0]
NoElem == [url |-> "", data |-> NoData, next |-> 0, prev |-> 0]
NoResult == [kind |-> "none", data |-> NoData]

\* Buffer.byteLength(url) for the ASCII urls of the model
ByteLength(url) == Len(url)

-----------------------------------------------------------------------------
(* Map<string, CacheElement> *)

EmptyMap == [k \in {} |-> 0]
MapHas(m, k) == k \in DOMAIN m
MapSet(m, k, v) == [x \in (DOMAIN m) \cup {k} |-> IF x = k THEN v ELSE m[x]]
MapDelete(m, k) == [x \in (DOMAIN m) \ {k} |-> m[x]]

SeqRemove(s, x) == SelectSeq(s, LAMBDA y : y # x)

-----------------------------------------------------------------------------
(* The cache as one value, so that a method body made of several           *)
(* assignments is computed in program order.                               *)

CacheState ==
    [head |-> head, tail |-> tail, heap |-> heap, cacheMap |-> cacheMap,
     cacheSize |-> cacheSize, hits |-> hits, misses |-> misses,
     lruTimeTrack |-> lruTimeTrack, fresh |-> fresh, finds |-> finds]

Store(c) ==
    /\ head' = c.head
    /\ tail' = c.tail
    /\ heap' = c.heap
    /\ cacheMap' = c.cacheMap
    /\ cacheSize' = c.cacheSize
    /\ maxSize' = maxSize
    /\ hits' = c.hits
    /\ misses' = c.misses
    /\ lruTimeTrack' = c.lruTimeTrack
    /\ fresh' = c.fresh
    /\ finds' = c.finds

RECURSIVE Walk(_, _, _)
Walk(h, n, acc) ==
    IF n = 0 \/ (\E i \in DOMAIN acc : acc[i] = n) THEN acc
    ELSE Walk(h, h[n].next, Append(acc, n))

RECURSIVE Ascending(_)
Ascending(S) ==
    IF S = {} THEN <<>>
    ELSE LET n == CHOOSE x \in S : \A y \in S : x <= y
         IN <<n>> \o Ascending(S \ {n})

\* Object identity is all a reference gives: the elements are kept in the
\* cells 1, 2, ... in the order head, head.next, ... (then any element not
\* linked from head), which renames references and changes nothing else.
Compact(c) ==
    LET linked == Walk(c.heap, c.head, <<>>)
        others == {n \in Nodes : c.heap[n] # NoElem /\ \A i \in DOMAIN linked : linked[i] # n}
        order == linked \o Ascending(others)
        ref(n) == IF \E i \in DOMAIN order : order[i] = n
                  THEN CHOOSE i \in DOMAIN order : order[i] = n
                  ELSE 0
    IN [c EXCEPT
          !.head = ref(@),
          !.tail = ref(@),
          !.heap = [i \in Nodes |->
                      IF i <= Len(order)
                      THEN [c.heap[order[i]] EXCEPT !.next = ref(@), !.prev = ref(@)]
                      ELSE NoElem],
          !.cacheMap = [k \in DOMAIN @ |-> ref(@[k])],
          !.lruTimeTrack = [i \in DOMAIN @ |-> ref(@[i])],
          !.fresh = [k \in DOMAIN @ |-> ref(@[k])]]

SetCache(c) == Store(Compact(c))

FreeNodes(c) == {n \in Nodes : c.heap[n] = NoElem}
NewNode(c) == CHOOSE n \in FreeNodes(c) : \A m \in FreeNodes(c) : n <= m

ElementSize(e) == e.data.length + ByteLength(e.url)

\* moveToFront linking the element in front of nothing: the rest of the list is lost
MoveToFrontDropsRest(c, e) ==
    IF e = c.head THEN c
    ELSE [c EXCEPT !.heap = [@ EXCEPT ![e].next = 0, ![e].prev = 0],
                   !.head = e, !.tail = e]

\* moveToFront without "Unlink from current position"
MoveToFrontNoUnlink(c, e) ==
    IF e = c.head THEN c
    ELSE
      LET h3 == [c.heap EXCEPT ![e].next = c.head, ![e].prev = 0]
          h4 == IF c.head # 0 THEN [h3 EXCEPT ![c.head].prev = e] ELSE h3
      IN [c EXCEPT !.heap = h4, !.head = e]

\* moveToFront returning at once
MoveToFrontNoop(c, e) == c

\* LRUCache.moveToFront
MoveToFront(c, e) ==
    IF e = c.head THEN c
    ELSE
      LET p == c.heap[e].prev
          x == c.heap[e].next
          h1 == IF p # 0 THEN [c.heap EXCEPT ![p].next = x] ELSE c.heap
          h2 == IF x # 0 THEN [h1 EXCEPT ![x].prev = p] ELSE h1
          t1 == IF e = c.tail THEN p ELSE c.tail
          h3 == [h2 EXCEPT ![e].next = c.head, ![e].prev = 0]
          h4 == IF c.head # 0 THEN [h3 EXCEPT ![c.head].prev = e] ELSE h3
          t2 == IF t1 = 0 THEN e ELSE t1
      IN [c EXCEPT !.heap = h4, !.head = e, !.tail = t2]

\* find that does not count a miss
FindBodyMissUncounted(c, url) ==
    IF MapHas(c.cacheMap, url)
    THEN LET e == c.cacheMap[url]
             c1 == [c EXCEPT !.hits = @ + 1,
                             !.lruTimeTrack = <<e>> \o SeqRemove(@, e)]
         IN [cache |-> MoveToFront(c1, e),
             result |-> [kind |-> "hit", data |-> c.heap[e].data]]
    ELSE [cache |-> c, result |-> [kind |-> "miss", data |-> NoData]]

\* find that drops the entry it hands out from the index
FindBodyDropsEntry(c, url) ==
    IF MapHas(c.cacheMap, url)
    THEN LET e == c.cacheMap[url]
             c1 == [c EXCEPT !.hits = @ + 1,
                             !.lruTimeTrack = <<e>> \o SeqRemove(@, e),
                             !.cacheMap = MapDelete(@, url)]
         IN [cache |-> MoveToFront(c1, e),
             result |-> [kind |-> "hit", data |-> c.heap[e].data]]
    ELSE [cache |-> [c EXCEPT !.misses = @ + 1],
          result |-> [kind |-> "miss", data |-> NoData]]

\* The body of LRUCache.find: the new cache and the value handed to the caller
FindBody(c, url) ==
    IF MapHas(c.cacheMap, url)
    THEN LET e == c.cacheMap[url]
             c1 == [c EXCEPT !.hits = @ + 1,
                             !.lruTimeTrack = <<e>> \o SeqRemove(@, e)]
         IN [cache |-> MoveToFront(c1, e),
             result |-> [kind |-> "hit", data |-> c.heap[e].data]]
    ELSE [cache |-> [c EXCEPT !.misses = @ + 1],
          result |-> [kind |-> "miss", data |-> NoData]]

\* removeLRU that updates the index and the counter and leaves the list alone
RemoveLRUKeepsLinked(c) ==
    IF c.tail = 0 THEN c
    ELSE [c EXCEPT !.cacheMap = MapDelete(@, c.heap[c.tail].url),
                   !.cacheSize = @ - ElementSize(c.heap[c.tail])]

\* LRUCache.removeLRU; the unlinked element is garbage and its cell is reused
RemoveLRU(c) ==
    IF c.tail = 0 THEN c
    ELSE
      LET lru == c.tail
          t == c.heap[lru].prev
          h1 == IF t # 0 THEN [c.heap EXCEPT ![t].next = 0] ELSE c.heap
      IN [c EXCEPT !.tail = t,
                   !.head = IF t # 0 THEN @ ELSE 0,
                   !.cacheMap = MapDelete(@, c.heap[lru].url),
                   !.cacheSize = @ - ElementSize(c.heap[lru]),
                   !.heap = [h1 EXCEPT ![lru] = NoElem],
                   !.lruTimeTrack = SeqRemove(@, lru),
                   !.fresh = [k \in {x \in DOMAIN @ : @[x] # lru} |-> @[k]]]

\* LRUCache.add, "Remove existing entry if present"
RemoveExisting(c, url) ==
    IF MapHas(c.cacheMap, url)
    THEN LET existing == c.cacheMap[url]
         IN [c EXCEPT !.cacheSize = @ - ElementSize(c.heap[existing]),
                      !.cacheMap = MapDelete(@, url)]
    ELSE c

\* "Add to front of list" without `this.tail = element` for the empty list
InsertElementNoTail(c, data, url) ==
    LET n == NewNode(c)
        h1 == [c.heap EXCEPT ![n] = [url |-> url, data |-> data, next |-> 0, prev |-> 0]]
        h2 == IF c.head = 0 THEN h1
              ELSE [h1 EXCEPT ![n].next = c.head, ![c.head].prev = n]
    IN [c EXCEPT !.cacheMap = MapSet(@, url, n),
                 !.cacheSize = @ + data.length + ByteLength(url),
                 !.heap = h2,
                 !.head = n,
                 !.lruTimeTrack = <<n>> \o @,
                 !.fresh = MapSet(@, url, n)]

\* LRUCache.add, "Create and add new element" and "Add to front of list"
InsertElement(c, data, url) ==
    LET n == NewNode(c)
        h1 == [c.heap EXCEPT ![n] = [url |-> url, data |-> data, next |-> 0, prev |-> 0]]
        h2 == IF c.head = 0 THEN h1
              ELSE [h1 EXCEPT ![n].next = c.head, ![c.head].prev = n]
    IN [c EXCEPT !.cacheMap = MapSet(@, url, n),
                 !.cacheSize = @ + data.length + ByteLength(url),
                 !.heap = h2,
                 !.head = n,
                 !.tail = IF c.head = 0 THEN n ELSE @,
                 !.lruTimeTrack = <<n>> \o @,
                 !.fresh = MapSet(@, url, n)]

\* add without its "Ensure space available" loop
EnsureSpaceNoEviction(c, data, url) ==
    [cache |-> IF FreeNodes(c) = {} THEN c ELSE InsertElement(c, data, url),
     st |-> "returned", result |-> [kind |-> "true", data |-> NoData],
     room |-> FreeNodes(c) # {}]

\* LRUCache.add, "Ensure space available": one test of the while condition.
\* Either one removeLRU call, after which the await suspends the body, or the
\* rest of add up to `return true`.  room: the model's heap has a cell for the
\* new element (without one the step is not taken).
EnsureSpace(c, data, url) ==
    IF c.cacheSize + data.length + ByteLength(url) > maxSize
    THEN [cache |-> RemoveLRU(c), st |-> "await", result |-> NoResult, room |-> TRUE]
    ELSE [cache |-> IF FreeNodes(c) = {} THEN c ELSE InsertElement(c, data, url),
          st |-> "returned", result |-> [kind |-> "true", data |-> NoData],
          room |-> FreeNodes(c) # {}]

\* add removing the existing entry before it checks the size
AddBodyRemoveFirst(c, data, url) ==
    IF data.length + ByteLength(url) > maxElementSize
    THEN [cache |-> RemoveExisting(c, url), st |-> "returned", replaced |-> FALSE,
          room |-> TRUE, result |-> [kind |-> "false", data |-> NoData]]
    ELSE LET r == EnsureSpace(RemoveExisting(c, url), data, url)
         IN [cache |-> r.cache, st |-> r.st, replaced |-> MapHas(c.cacheMap, url),
             room |-> r.room, result |-> r.result]

\* LRUCache.add from its first statement to its first suspension or return
AddBody(c, data, url) ==
    IF data.length + ByteLength(url) > maxElementSize
    THEN [cache |-> c, st |-> "returned", replaced |-> FALSE, room |-> TRUE,
          result |-> [kind |-> "false", data |-> NoData]]
    ELSE LET r == EnsureSpace(RemoveExisting(c, url), data, url)
         IN [cache |-> r.cache, st |-> r.st, replaced |-> MapHas(c.cacheMap, url),
             room |-> r.room, result |-> r.result]

\* clear that resets the list and the counters and leaves the index as it is
ClearBodyKeepsIndex(c) ==
    [c EXCEPT !.head = 0, !.tail = 0, !.cacheSize = 0, !.hits = 0, !.misses = 0,
              !.lruTimeTrack = <<>>, !.fresh = EmptyMap]

\* clear without resetting the statistics
ClearBodyKeepsCounters(c) ==
    [c EXCEPT !.head = 0, !.tail = 0, !.cacheMap = EmptyMap, !.cacheSize = 0,
              !.heap = [n \in Nodes |-> NoElem], !.lruTimeTrack = <<>>,
              !.fresh = EmptyMap]

\* The body of LRUCache.clear
ClearBody(c) ==
    [c EXCEPT !.head = 0, !.tail = 0, !.cacheMap = EmptyMap, !.cacheSize = 0,
              !.hits = 0, !.misses = 0,
              !.heap = [n \in Nodes |-> NoElem], !.lruTimeTrack = <<>>,
              !.fresh = EmptyMap]

\* LRUCache.logStats: what it reports; hitRate in hundredths of a percent,
\* rounded as toFixed(2) rounds
LogStats ==
    [size |-> cacheSize,
     items |-> Cardinality(DOMAIN cacheMap),
     hitRate |-> IF hits + misses > 0
                 THEN (2 * 10000 * hits + (hits + misses)) \div (2 * (hits + misses))
                 ELSE 0,
     hits |-> hits,
     misses |-> misses]

-----------------------------------------------------------------------------
(* LRUCache.lock: the promise chain.  mutex holds, in call order, the      *)
(* lock() calls whose promise `next` has not settled yet:                  *)
(*   st = "queued"    fn has not been called                               *)
(*   st = "await"     fn (add) is suspended at `await this.removeLRU()`    *)
(*   st = "returned"  fn has returned; `next` is about to resolve          *)

Op(kind, url, data, owner) ==
    [op |-> kind, url |-> url, data |-> data, owner |-> owner,
     st |-> "queued", result |-> NoResult, replaced |-> FALSE, evicted |-> FALSE,
     moved |-> FALSE, dropped |-> FALSE, overlap |-> FALSE]

\* lock() calling fn at once instead of chaining it on this.mutex
LockReadyUnchained(i) == TRUE

\* A lock that a request keeps while it waits for its origin
LockReadyAfterFetch(i) ==
    i = 1 /\ \A r \in DOMAIN requests : requests[r].pc \notin {"FETCH", "BUFFER"}

\* A chain that a rejected call has broken: `this.mutex = next` without catch
LockReadyUnlessRejected(i) ==
    i = 1 /\ \A r \in DOMAIN requests : requests[r].found.kind # "thrown"

\* `this.mutex.then(...)`: the callback of the i-th pending call runs once the
\* promise of every earlier call has settled, that is, once it is the oldest.
LockReady(i) == i = 1

PendingFinds == Cardinality({i \in DOMAIN mutex : mutex[i].op = "find" /\ mutex[i].st = "queued"})

\* Room in the model for one more lock() call of this kind
CanLock(kind) ==
    /\ Len(mutex) < MaxQueue
    /\ kind = "find" => finds + PendingFinds < MaxFinds

SeqDrop(s, i) == SubSeq(s, 1, i - 1) \o SubSeq(s, i + 1, Len(s))

-----------------------------------------------------------------------------
(* Target urls.  A url string is kept in the three pieces the code looks   *)
(* at; Str gives the string itself.                                        *)

Url(scheme, host, path) == [scheme |-> scheme, host |-> host, path |-> path]
Str(u) == u.scheme \o u.host \o u.path

Lower(s) ==
    CASE s = "HTTP://" -> "http://"
      [] s = "EXAMPLE.test" -> "example.test"
      [] OTHER -> s

\* /^https?:\/\//i
HasProtocol(u) == u.scheme # ""

\* handleRequest, "Ensure URL has protocol"
FormatUrl(u) == IF HasProtocol(u) THEN u ELSE [u EXCEPT !.scheme = "http://"]

\* new URL(formattedUrl) throws on a url without host
CanParse(u) == u.host # ""

\* new URL(formattedUrl).href: scheme and host in lower case, empty path is "/"
Href(u) == Url(Lower(u.scheme), Lower(u.host), IF u.path = "" THEN "/" ELSE u.path)

Targets ==
    { Url("", "", ""),
      Url("", "example.test", "/y"),
      Url("http://", "example.test", "/y"),
      Url("http://", "example.test", "/y/"),
      Url("http://", "example.test", ""),
      Url("http://", "", "") }

\* The targets requested while clear() calls are made as well
AdminTargets == {Url("http://", "example.test", "/y/"), Url("http://", "example.test", "")}

\* Response bodies an origin may send: "OK" and four bytes
Bodies == {[fill |-> 1, length |-> 2], [fill |-> 1, length |-> 4]}
Statuses == {200, 404}

\* The direct callers of the cache use one-byte urls: two sizes the cache
\* admits (three of the first fit, two of the second do not) and one it rejects
Urls == {"a", "b", "c"}
Datas == {[fill |-> 1, length |-> n] :
             n \in {(maxSize \div 3) - 1, maxElementSize - 1, maxElementSize}}

\* Concurrent callers: fewer urls, and one size
ConcUrls == {"a", "b"}
ConcDatas == {[fill |-> 1, length |-> maxElementSize - 1]}

-----------------------------------------------------------------------------
(* Requests *)

IdleRequest ==
    [pc |-> "idle", target |-> "", url |-> Url("", "", ""), key |-> "", href |-> "",
     status |-> 0, xcache |-> "", body |-> NoData, error |-> "",
     originStatus |-> 0, originBody |-> NoData, originRequests |-> 0,
     found |-> NoResult, method |-> "", path |-> "", headers |-> {}, text |-> "",
     xcacheError |-> "", statusLines |-> 0, contentType |-> "", originType |-> "",
     expect |-> NoData, admitted |-> FALSE, addCurrent |-> FALSE]

Slots == {1, 2}
Terminal == {"SERVE_HIT", "STORE_AND_SERVE", "ERROR"}

\* Request methods and the pathnames of request URLs
Methods == {"GET", "POST", "OPTIONS"}
Paths == {"/", "/status", "/favicon.ico", "/proxy", "/other"}

\* History only: a step that changed the cache ends what `served` recorded
Forget(reqs) == [r \in Slots |-> [reqs[r] EXCEPT !.expect = NoData, !.addCurrent = FALSE]]

-----------------------------------------------------------------------------
(* Keys of the browser's localStorage *)

MaxRequests == 4       \* operations counted in the statistics of the browser cache

prefix == "proxy_cache_"

BrowserUrls == {"a", "b"}
Responses == {"x", "y"}

\* A key of localStorage: `this.prefix + name`
Key(pre, name) == [prefix |-> pre, name |-> name]

Keys == {Key(prefix, n) : n \in BrowserUrls \cup {"stats"}}

StatsKey == Key(prefix, "stats")

NoItem == [none |-> TRUE]

\* The fields of a new LRUCache and of a new ProxyServer when CONFIG.CACHE_SIZE
\* is `size`; no lock() call pending; no request; an empty localStorage
Constructed(size) ==
    /\ head = 0
    /\ tail = 0
    /\ heap = [n \in Nodes |-> NoElem]
    /\ cacheMap = EmptyMap
    /\ cacheSize = 0
    /\ maxSize = size
    /\ hits = 0
    /\ misses = 0
    /\ lruTimeTrack = <<>>
    /\ fresh = EmptyMap
    /\ finds = 0
    /\ mutex = <<>>
    /\ server = [isRunning |-> FALSE, listener |-> "closed", events |-> {}]
    /\ requests = [r \in Slots |-> IdleRequest]
    /\ served = EmptyMap
    /\ localStorage = [k \in Keys |-> NoItem]

Init == Constructed(CacheSizeUnits)

\* The same with a cache that is one byte larger than the largest element
TightInit == Constructed(TightSizeUnits)

-----------------------------------------------------------------------------
(* Direct callers of the cache: find / add / clear, each a lock() call     *)

ClientFind(url) ==
    /\ CanLock("find")
    /\ mutex' = Append(mutex, Op("find", url, NoData, 0))
    /\ UNCHANGED <<localStorage, server, cacheVars, requests, served>>

ClientAdd(data, url) ==
    /\ CanLock("add")
    /\ mutex' = Append(mutex, Op("add", url, data, 0))
    /\ UNCHANGED <<localStorage, server, cacheVars, requests, served>>

ClientClear ==
    /\ CanLock("clear")
    /\ mutex' = Append(mutex, Op("clear", "", NoData, 0))
    /\ UNCHANGED <<localStorage, server, cacheVars, requests, served>>

-----------------------------------------------------------------------------
(* The functions run under the lock *)

\* History only.  A step of add for `owner` that changed the cache ends what
\* `served` recorded; addCurrent marks the request whose add came last.
Touch(c, owner, st) ==
    IF c = CacheState
    THEN UNCHANGED <<requests, served>>
    ELSE /\ requests' = [r \in Slots |->
                 [Forget(requests)[r] EXCEPT !.addCurrent = (r = owner /\ st = "returned")]]
         /\ served' = EmptyMap

\* History only: a request other than `owner` is waiting for its origin
AtOrigin(owner) ==
    \E r \in Slots \ {owner} : requests[r].pc \in {"FETCH", "BUFFER"}

RunFind(i) ==
    /\ i \in DOMAIN mutex
    /\ mutex[i].op = "find"
    /\ mutex[i].st = "queued"
    /\ LockReady(i)
    /\ LET r == FindBody(CacheState, mutex[i].url)
       IN /\ SetCache([r.cache EXCEPT !.finds = @ + 1])
          /\ mutex' = [mutex EXCEPT ![i].st = "returned", ![i].result = r.result,
                  ![i].moved = (r.result.kind = "hit" /\ cacheMap[mutex[i].url] # head),
                  ![i].overlap = AtOrigin(mutex[i].owner)]
    /\ UNCHANGED <<localStorage, server, requests, served>>

RunAdd(i) ==
    /\ i \in DOMAIN mutex
    /\ mutex[i].op = "add"
    /\ mutex[i].st = "queued"
    /\ LockReady(i)
    /\ LET r == AddBody(CacheState, mutex[i].data, mutex[i].url)
       IN /\ r.room
          /\ SetCache(r.cache)
          /\ mutex' = [mutex EXCEPT ![i].st = r.st, ![i].result = r.result,
                                    ![i].replaced = r.replaced,
                                    ![i].evicted = (r.st = "await"),
                                    ![i].overlap = AtOrigin(mutex[i].owner)]
          /\ Touch(r.cache, mutex[i].owner, r.st)
    /\ UNCHANGED <<localStorage, server>>

\* The function add gave to lock() throws before it changes a field: `next`
\* rejects, and `this.mutex = next.catch(...)` lets the calls behind it run
AddThrows(i) ==
    /\ i \in DOMAIN mutex
    /\ mutex[i].op = "add"
    /\ mutex[i].owner # 0
    /\ mutex[i].st = "queued"
    /\ LockReady(i)
    /\ mutex' = [mutex EXCEPT ![i].st = "returned",
                              ![i].result = [kind |-> "thrown", data |-> NoData]]
    /\ UNCHANGED <<localStorage, server, cacheVars, requests, served>>

\* add resumes after `await this.removeLRU()` and tests the while condition again
ResumeAdd(i) ==
    /\ i \in DOMAIN mutex
    /\ mutex[i].op = "add"
    /\ mutex[i].st = "await"
    /\ LET r == EnsureSpace(CacheState, mutex[i].data, mutex[i].url)
       IN /\ r.room
          /\ SetCache(r.cache)
          /\ mutex' = [mutex EXCEPT ![i].st = r.st, ![i].result = r.result]
          /\ Touch(r.cache, mutex[i].owner, r.st)
    /\ UNCHANGED <<localStorage, server>>

RunClear(i) ==
    /\ i \in DOMAIN mutex
    /\ mutex[i].op = "clear"
    /\ mutex[i].st = "queued"
    /\ LockReady(i)
    /\ SetCache([ClearBody(CacheState) EXCEPT !.finds = 0])
    /\ mutex' = [mutex EXCEPT ![i].st = "returned",
            ![i].dropped = (cacheMap # EmptyMap /\ hits + misses > 0),
            ![i].overlap = AtOrigin(mutex[i].owner)]
    /\ requests' = Forget(requests)
    /\ served' = EmptyMap
    /\ UNCHANGED <<localStorage, server>>

-----------------------------------------------------------------------------
(* handleRequest, case '/proxy', and makeProxyRequest *)

\* The headers res.setHeader gives every response (createServer callback)
DefaultHeaders ==
    {"Access-Control-Allow-Origin", "Access-Control-Allow-Methods",
     "Access-Control-Allow-Headers"}

\* handleRequest, corsHeaders
CorsHeaders ==
    DefaultHeaders \cup {"Access-Control-Expose-Headers", "Access-Control-Allow-Credentials"}

\* Values thrown: a ProxyError carries its statusCode, another Error carries none
ProxyError(msg, code) == [isProxyError |-> TRUE, message |-> msg, statusCode |-> code]
Error(msg) == [isProxyError |-> FALSE, message |-> msg, statusCode |-> 0]

\* The catch of handleRequest taking whatever statusCode the error carries
StatusCodeOfAny(error) == error.statusCode

\* `error instanceof ProxyError ? error.statusCode : 500`
StatusCodeOf(error) == IF error.isProxyError THEN error.statusCode ELSE 500

\* The JSON body the catch of handleRequest writes
Envelope(q) == [error |-> q.error, status |-> "error", statusCode |-> q.status]

\* The catch of handleRequest (headers have not been sent)
ErrorResponse(q, code, msg) ==
    [q EXCEPT !.pc = "ERROR", !.status = code, !.error = msg,
              !.headers = CorsHeaders \cup {"Content-Type"},
              !.contentType = "application/json", !.statusLines = @ + 1]

Catch(q, error) == ErrorResponse(q, StatusCodeOf(error), error.message)

\* handleRequest asking the origin also when find handed it an entry
AfterFindFetchesOnHit(q, result) ==
    IF result.kind = "hit"
    THEN [q EXCEPT !.pc = "SERVE_HIT", !.status = 200, !.xcache = "HIT",
                   !.body = result.data, !.originRequests = @ + 1,
                   !.contentType = "text/html", !.statusLines = @ + 1,
                   !.headers = CorsHeaders \cup {"Content-Type", "X-Cache-Lookup",
                                                 "X-Cache", "X-Cache-Date"}]
    ELSE IF CanParse(q.url)
         THEN [q EXCEPT !.pc = "FETCH", !.href = Str(Href(q.url)),
                        !.originRequests = @ + 1]
         ELSE Catch(q, Error("Invalid URL"))

\* handleRequest after `await this.cache.find(formattedUrl)`
AfterFind(q, result) ==
    IF result.kind = "hit"
    THEN [q EXCEPT !.pc = "SERVE_HIT", !.status = 200, !.xcache = "HIT",
                   !.body = result.data,
                   !.contentType = "text/html", !.statusLines = @ + 1,
                   !.headers = CorsHeaders \cup {"Content-Type", "X-Cache-Lookup",
                                                 "X-Cache", "X-Cache-Date"}]
    ELSE IF CanParse(q.url)
         THEN [q EXCEPT !.pc = "FETCH", !.href = Str(Href(q.url)),
                        !.originRequests = @ + 1]
         ELSE Catch(q, Error("Invalid URL"))

\* The 'end' handler failing the request when add did not store the body
AfterAddFailsUnstored(q, result) ==
    IF result.kind = "true"
    THEN [q EXCEPT !.pc = "STORE_AND_SERVE", !.status = q.originStatus, !.xcache = "MISS",
                   !.body = q.originBody, !.admitted = TRUE,
                   !.contentType = IF q.originType # "" THEN q.originType ELSE "text/html",
                   !.statusLines = @ + 1,
                   !.headers = CorsHeaders \cup {"Content-Type", "X-Cache-Lookup", "X-Cache"}]
    ELSE Catch(q, Error("Failed to cache response"))

\* The 'end' handler without its inner try/catch: the exception of add reaches
\* the catch of handleRequest
AfterAddRethrows(q, result) ==
    IF result.kind = "thrown"
    THEN Catch(q, Error("add failed"))
    ELSE [q EXCEPT !.pc = "STORE_AND_SERVE", !.status = q.originStatus, !.xcache = "MISS",
                   !.body = q.originBody,
                   !.contentType = IF q.originType # "" THEN q.originType ELSE "text/html",
                   !.statusLines = @ + 1,
                   !.headers = CorsHeaders \cup {"Content-Type", "X-Cache-Lookup", "X-Cache"},
                   !.admitted = (result.kind = "true"),
                   !.addCurrent = (q.addCurrent /\ result.kind = "true")]

\* The 'end' handler writing the head before the insert and again in its catch
AfterAddWritesTwice(q, result) ==
    [q EXCEPT !.pc = "STORE_AND_SERVE", !.status = q.originStatus, !.xcache = "MISS",
              !.body = q.originBody,
              !.contentType = IF q.originType # "" THEN q.originType ELSE "text/html",
              !.statusLines = IF result.kind = "thrown" THEN @ + 2 ELSE @ + 1,
              !.headers = CorsHeaders \cup {"Content-Type", "X-Cache-Lookup", "X-Cache"}
                            \cup (IF result.kind = "thrown" THEN {"X-Cache-Error"} ELSE {}),
              !.xcacheError = IF result.kind = "thrown"
                              THEN "Failed to cache response" ELSE "",
              !.admitted = (result.kind = "true"),
              !.addCurrent = (q.addCurrent /\ result.kind = "true")]

\* The 'end' handler of makeProxyRequest after `await this.cache.add(...)`:
\* the value add returned is dropped; an exception is caught and named in a
\* header.  The Content-Type is the origin's, text/html if it sent none or if
\* the catch wrote the head.
AfterAdd(q, result) ==
    [q EXCEPT !.pc = "STORE_AND_SERVE", !.status = q.originStatus, !.xcache = "MISS",
              !.body = q.originBody,
              !.contentType = IF q.originType # "" /\ result.kind # "thrown"
                              THEN q.originType ELSE "text/html",
              !.statusLines = @ + 1,
              !.headers = CorsHeaders \cup {"Content-Type", "X-Cache-Lookup", "X-Cache"}
                            \cup (IF result.kind = "thrown" THEN {"X-Cache-Error"} ELSE {}),
              !.xcacheError = IF result.kind = "thrown"
                              THEN "Failed to cache response" ELSE "",
              !.admitted = (result.kind = "true"),
              !.addCurrent = (q.addCurrent /\ result.kind = "true")]

\* `!targetUrl`: searchParams.get gave null or the empty string
NoTargetNever(t) == FALSE

NoTarget(t) == Str(t) = ""

\* writeHead and end of a response that needs neither cache nor origin
Respond(q, code, hdrs, type, text) ==
    [q EXCEPT !.pc = "DONE", !.status = code, !.headers = hdrs, !.text = text,
              !.contentType = type, !.statusLines = @ + 1]

\* The switch of handleRequest whose default case answers as `/` does
HandleRequestDefaultOk(q, isRunning) ==
    IF q.method = "OPTIONS"
    THEN Respond(q, 204, CorsHeaders, "", "")
    ELSE CASE q.path = "/status" ->
                Respond(q, 200, CorsHeaders \cup {"Content-Type"}, "application/json",
                        IF isRunning THEN "Connected" ELSE "Disconnected")
           [] q.path = "/favicon.ico" ->
                Respond(q, 204, CorsHeaders \cup {"Content-Type"}, "image/x-icon", "")
           [] OTHER ->
                Respond(q, 200, CorsHeaders \cup {"Content-Type"}, "application/json",
                        "Proxy server is running")

\* handleRequest for the pathnames other than /proxy
HandleRequest(q, isRunning) ==
    IF q.method = "OPTIONS"
    THEN Respond(q, 204, CorsHeaders, "", "")
    ELSE CASE q.path = "/" ->
                Respond(q, 200, CorsHeaders \cup {"Content-Type"}, "application/json",
                        "Proxy server is running")
           [] q.path = "/status" ->
                Respond(q, 200, CorsHeaders \cup {"Content-Type"}, "application/json",
                        IF isRunning THEN "Connected" ELSE "Disconnected")
           [] q.path = "/favicon.ico" ->
                Respond(q, 204, CorsHeaders \cup {"Content-Type"}, "image/x-icon", "")
           [] OTHER ->
                Catch(q, ProxyError("Endpoint not found", 404))

\* The callback of http.createServer: default headers, the preflight answer,
\* handleRequest for everything else
Request(r, m, p) ==
    /\ requests[r].pc = "idle"
    /\ server.listener = "listening"
    /\ m = "OPTIONS" \/ p # "/proxy"
    /\ LET q == [requests[r] EXCEPT !.method = m, !.path = p, !.headers = DefaultHeaders]
       IN requests' = [requests EXCEPT
              ![r] = IF m = "OPTIONS"
                     THEN Respond(q, 204, DefaultHeaders, "", "")
                     ELSE HandleRequest(q, server.isRunning)]
    /\ UNCHANGED <<localStorage, server, cacheVars, mutex, served>>

\* A request for /proxy with the query parameter targetUrl = Str(t) reaches
\* handleRequest
ProxyRequest(r, m, t) ==
    /\ requests[r].pc = "idle"
    /\ server.listener = "listening"
    /\ m # "OPTIONS"
    /\ LET q == [requests[r] EXCEPT !.target = Str(t),
                     !.method = m, !.path = "/proxy", !.headers = DefaultHeaders,
                     !.expect = IF MapHas(served, Str(t)) THEN served[Str(t)] ELSE NoData]
           f == FormatUrl(t)
       IN IF NoTarget(t)
          THEN /\ requests' = [requests EXCEPT
                      ![r] = Catch(q, ProxyError("No target URL provided", 400))]
               /\ UNCHANGED mutex
          ELSE /\ CanLock("find")
               /\ requests' = [requests EXCEPT
                      ![r] = [q EXCEPT !.pc = "LOOKUP", !.url = f, !.key = Str(f)]]
               /\ mutex' = Append(mutex, Op("find", Str(f), NoData, r))
    /\ UNCHANGED <<localStorage, server, cacheVars, served>>

Arrive(r, t) == ProxyRequest(r, "GET", t)

\* proxyRes.headers['content-type'] of the origins of the model: none with
\* status 200, text/plain with any other status
OriginType(code) == IF code = 200 THEN "" ELSE "text/plain"

\* The origin's response arrives: the callback of requester.request
OriginResponse(r, code) ==
    /\ requests[r].pc = "FETCH"
    /\ requests' = [requests EXCEPT ![r].pc = "BUFFER", ![r].originStatus = code,
                                    ![r].originType = OriginType(code)]
    /\ UNCHANGED <<localStorage, server, cacheVars, mutex, served>>

\* An 'end' handler that hands only the body of a 200 response to cache.add
OriginEndStoresOkOnly(r, body) ==
    /\ requests[r].pc = "BUFFER"
    /\ CanLock("add")
    /\ IF requests[r].originStatus = 200
       THEN /\ requests' = [requests EXCEPT ![r].pc = "STORE", ![r].originBody = body]
            /\ mutex' = Append(mutex, Op("add", requests[r].href, body, r))
       ELSE /\ requests' = [requests EXCEPT
                   ![r] = AfterAdd([@ EXCEPT !.originBody = body],
                                   [kind |-> "false", data |-> NoData])]
            /\ UNCHANGED mutex
    /\ UNCHANGED <<localStorage, server, cacheVars, served>>

\* proxyRes 'end': the body is complete and is handed to cache.add
OriginEnd(r, body) ==
    /\ requests[r].pc = "BUFFER"
    /\ CanLock("add")
    /\ requests' = [requests EXCEPT ![r].pc = "STORE", ![r].originBody = body]
    /\ mutex' = Append(mutex, Op("add", requests[r].href, body, r))
    /\ UNCHANGED <<localStorage, server, cacheVars, served>>

\* proxyReq 'error': reject, caught by handleRequest
OriginError(r) ==
    /\ requests[r].pc = "FETCH"
    /\ requests' = [requests EXCEPT ![r] = Catch(@, Error("origin error"))]
    /\ UNCHANGED <<localStorage, server, cacheVars, mutex, served>>

\* The connection of a finished request is closed; its slot serves the next one
Close(r) ==
    /\ requests[r].pc \in Terminal \cup {"DONE"}
    /\ requests' = [requests EXCEPT ![r] = IdleRequest]
    /\ UNCHANGED <<localStorage, server, cacheVars, mutex, served>>

\* `next` settles: the lock() call leaves the chain (the function of the next
\* call may start) and the promise its caller awaits is resolved with the value
Settle(i) ==
    /\ i \in DOMAIN mutex
    /\ mutex[i].st = "returned"
    /\ mutex' = SeqDrop(mutex, i)
    /\ LET o == mutex[i]
           r == o.owner
       IN IF r = 0
          THEN UNCHANGED requests
          ELSE requests' = [requests EXCEPT
                   ![r].found = o.result,
                   ![r].pc = IF o.op = "find" THEN "LOOKUP_DONE" ELSE "STORE_DONE"]
    /\ UNCHANGED <<localStorage, server, cacheVars, served>>

\* The awaiting code resumes: handleRequest after `await this.cache.find(...)`,
\* the 'end' handler after `await this.cache.add(...)`
Resume(r) ==
    /\ requests[r].pc \in {"LOOKUP_DONE", "STORE_DONE"}
    /\ IF requests[r].pc = "LOOKUP_DONE"
       THEN /\ requests' = [requests EXCEPT ![r] = AfterFind(@, @.found)]
            /\ UNCHANGED served
       ELSE LET q == AfterAdd(requests[r], requests[r].found)
            IN /\ requests' = [requests EXCEPT ![r] = q]
               /\ served' = IF q.addCurrent
                            THEN MapSet(served, q.target, q.body)
                            ELSE served
    /\ UNCHANGED <<localStorage, server, cacheVars, mutex>>

\* The 'end' handler resumes after add and its first writeHead throws before
\* a head is written: its catch writes the head with the lookup headers,
\* X-Cache: MISS and X-Cache-Error, and ends the response with the body
ResumeWriteThrows(r) ==
    /\ requests[r].pc = "STORE_DONE"
    /\ requests[r].found.kind \in {"true", "false"}
    /\ LET q == AfterAdd(requests[r], requests[r].found)
       IN /\ requests' = [requests EXCEPT
                 ![r] = [q EXCEPT !.contentType = "text/html",
                                  !.headers = @ \cup {"X-Cache-Error"},
                                  !.xcacheError = "Failed to cache response"]]
          /\ served' = IF q.addCurrent
                       THEN MapSet(served, q.target, q.body)
                       ELSE served
    /\ UNCHANGED <<localStorage, server, cacheVars, mutex>>

-----------------------------------------------------------------------------
(* ProxyServer.start, ProxyServer.stop and the events of the http.Server *)

\* start(): server.listen(port, callback)
Start ==
    /\ server.listener = "closed"
    /\ server' = [server EXCEPT !.listener = "binding"]
    /\ UNCHANGED <<localStorage, cacheVars, mutex, requests, served>>

\* The port is bound: the callback given to listen runs
Listening ==
    /\ server.listener = "binding"
    /\ server' = [server EXCEPT !.listener = "listening", !.isRunning = TRUE]
    /\ UNCHANGED <<localStorage, cacheVars, mutex, requests, served>>

\* The port cannot be bound: the 'error' handler of the constructor runs
ListenError ==
    /\ server.listener = "binding"
    /\ server' = [server EXCEPT !.listener = "closed", !.isRunning = FALSE]
    /\ UNCHANGED <<localStorage, cacheVars, mutex, requests, served>>

\* stop(): server.close(callback); no new connection is accepted
Stop ==
    /\ server.listener = "listening"
    /\ server' = [server EXCEPT !.listener = "closing"]
    /\ UNCHANGED <<localStorage, cacheVars, mutex, requests, served>>

\* Every connection has ended: the callback given to close runs
Closed ==
    /\ server.listener = "closing"
    /\ \A r \in Slots : requests[r].pc = "idle"
    /\ server' = [server EXCEPT !.listener = "closed", !.isRunning = FALSE]
    /\ UNCHANGED <<localStorage, cacheVars, mutex, requests, served>>

-----------------------------------------------------------------------------
CacheStep ==
    \/ \E i \in 1..MaxQueue : RunFind(i)
    \/ \E i \in 1..MaxQueue : RunAdd(i)
    \/ \E i \in 1..MaxQueue : ResumeAdd(i)
    \/ \E i \in 1..MaxQueue : Settle(i)

\* The cache under a caller that awaits each call before making the next
Next ==
    \/ \E u \in Urls : mutex = <<>> /\ ClientFind(u)
    \/ \E d \in Datas, u \in Urls : mutex = <<>> /\ ClientAdd(d, u)
    \/ mutex = <<>> /\ ClientClear
    \/ \E i \in 1..MaxQueue : RunClear(i)
    \/ CacheStep

Spec == Init /\ [][Next]_vars

\* The cache under callers that do not wait for one another
ConcNext ==
    \/ \E u \in ConcUrls : ClientFind(u)
    \/ \E d \in ConcDatas, u \in ConcUrls : ClientAdd(d, u)
    \/ ClientClear
    \/ \E i \in 1..MaxQueue : RunClear(i)
    \/ CacheStep

ConcSpec == Init /\ [][ConcNext]_vars

\* The small cache under a caller of add that awaits each call: bodies of one
\* byte and the largest bodies the cache admits
TightDatas == {[fill |-> 1, length |-> n] : n \in {1, maxElementSize - 1}}

TightNext ==
    \/ \E d \in TightDatas, u \in ConcUrls : mutex = <<>> /\ ClientAdd(d, u)
    \/ \E i \in 1..MaxQueue : RunAdd(i)
    \/ \E i \in 1..MaxQueue : ResumeAdd(i)
    \/ \E i \in 1..MaxQueue : Settle(i)

TightSpec == TightInit /\ [][TightNext]_vars

\* The proxy server under /proxy requests
ProxyNext ==
    \/ Start
    \/ Listening
    \/ \E r \in Slots, t \in Targets : Arrive(r, t)
    \/ \E r \in Slots, code \in Statuses : OriginResponse(r, code)
    \/ \E r \in Slots, b \in Bodies : OriginEnd(r, b)
    \/ \E r \in Slots : OriginError(r)
    \/ \E r \in Slots : Resume(r)
    \/ \E r \in Slots : Close(r)
    \/ CacheStep

ProxySpec == Init /\ [][ProxyNext]_vars

\* The proxy server while the owner of the cache also calls clear()
AdminNext ==
    \/ Start
    \/ Listening
    \/ \E r \in Slots, t \in AdminTargets : Arrive(r, t)
    \/ \E r \in Slots : OriginResponse(r, 200)
    \/ \E r \in Slots, b \in Bodies : OriginEnd(r, b)
    \/ \E r \in Slots : OriginError(r)
    \/ \E r \in Slots : Resume(r)
    \/ \E r \in Slots : Close(r)
    \/ CacheStep
    \/ ClientClear
    \/ \E i \in 1..MaxQueue : RunClear(i)

AdminSpec == Init /\ [][AdminNext]_vars

\* The proxy server when every step of its own that can be taken is taken in
\* the end; nothing is assumed about what an origin does or when
LiveProxySpec ==
    /\ ProxySpec
    /\ WF_vars(CacheStep)
    /\ \A r \in Slots : WF_vars(Resume(r))

\* The proxy server when a call of add may end with an exception
FaultNext ==
    \/ ProxyNext
    \/ \E i \in 1..MaxQueue : AddThrows(i)

FaultSpec == Init /\ [][FaultNext]_vars

\* The proxy server when add may end with an exception and the first writeHead
\* of the 'end' handler may throw
WriteFaultNext ==
    \/ FaultNext
    \/ \E r \in Slots : ResumeWriteThrows(r)

WriteFaultSpec == Init /\ [][WriteFaultNext]_vars

\* The proxy server under requests that need neither cache nor origin, started
\* and stopped by its owner
ServerNext ==
    \/ Start
    \/ Listening
    \/ ListenError
    \/ Stop
    \/ Closed
    \/ \E r \in Slots, m \in Methods, p \in Paths : Request(r, m, p)
    \/ \E r \in Slots : Close(r)

ServerSpec == Init /\ [][ServerNext]_vars

-----------------------------------------------------------------------------
(* What the properties speak of *)

RECURSIVE Reach(_, _, _)
Reach(h, n, seen) ==
    IF n = 0 \/ n \in seen THEN seen ELSE Reach(h, h[n].next, seen \cup {n})

\* The elements reachable from head through next
ListNodes == Reach(heap, head, {})

\* The elements the index holds
MapNodes == {cacheMap[k] : k \in DOMAIN cacheMap}

RECURSIVE SumSizes(_)
SumSizes(S) ==
    IF S = {} THEN 0
    ELSE LET n == CHOOSE x \in S : TRUE
         IN ElementSize(heap[n]) + SumSizes(S \ {n})

\* Every reference held by the cache or by a live element is null or a live element
NoDangling ==
    LET live == {n \in Nodes : heap[n] # NoElem}
        ok(n) == n = 0 \/ n \in live
    IN /\ ok(head) /\ ok(tail)
       /\ \A n \in live : ok(heap[n].next) /\ ok(heap[n].prev)
       /\ \A k \in DOMAIN cacheMap : cacheMap[k] \in live
       /\ \A k \in DOMAIN fresh : fresh[k] \in live
       /\ \A i \in DOMAIN lruTimeTrack : lruTimeTrack[i] \in live
       /\ live = Reach(heap, head, {})

\* No add is suspended inside its eviction loop: the cache is between operations
Quiescent == \A i \in DOMAIN mutex : mutex[i].st # "await"

Returned(i, kind) ==
    /\ i \in DOMAIN mutex
    /\ mutex[i].op = kind
    /\ mutex[i].st = "returned"

Pos(seq, x) == CHOOSE i \in 1..Len(seq) : seq[i] = x

\* element n carries an older lruTimeTrack stamp than element m
Older(n, m) == Pos(lruTimeTrack, n) > Pos(lruTimeTrack, m)

-----------------------------------------------------------------------------
\* C1: between operations, the elements reachable from head through next are
\* exactly the elements held in cacheMap.
C1_IndexEqualsList == Quiescent => ListNodes = MapNodes

C3_DoubleInsert ==
    \A i \in DOMAIN mutex :
        (Returned(i, "add") /\ mutex[i].result.kind = "true" /\ mutex[i].replaced)
        => /\ Cardinality({n \in ListNodes : heap[n].url = mutex[i].url}) = 1
           /\ MapHas(cacheMap, mutex[i].url)
           /\ heap[cacheMap[mutex[i].url]].data = mutex[i].data

\* C5: cacheSize never exceeds maxSize, in any state, also while add is
\* suspended between two evictions.
C5_WithinCapacity == cacheSize <= maxSize

\* C5 witness: an add that had to evict has been admitted, and the cache holds
\* more than one element's worth of bytes
C5_Witness ==
    \E i \in DOMAIN mutex :
        /\ Returned(i, "add")
        /\ mutex[i].result.kind = "true"
        /\ mutex[i].evicted
        /\ cacheSize > maxElementSize

\* The element the latest admitted add(data, url) created has not been
\* evicted or cleared, and was not due for eviction either: an element with an
\* older stamp is still findable.
Kept(url) ==
    /\ MapHas(fresh, url)
    /\ \E j \in DOMAIN cacheMap : Older(cacheMap[j], fresh[url])

\* C8: find(url) returns the bytes of the element the latest admitted
\* add(data, url) created, when no eviction and no clear removed that element
\* since.
C8_AddThenFind ==
    \A i \in DOMAIN mutex :
        (Returned(i, "find") /\ Kept(mutex[i].url))
        => /\ mutex[i].result.kind = "hit"
           /\ mutex[i].result.data = heap[fresh[mutex[i].url]].data

\* C9: an evicting add for url u never makes another url unfindable while a
\* url whose element carries an older stamp stays findable.
C9_LruOrder ==
    [][(mutex # <<>> /\ mutex[1].op = "add")
        => \A k \in ((DOMAIN cacheMap) \ (DOMAIN cacheMap')) \ {mutex[1].url} :
             \A j \in ((DOMAIN cacheMap) \cap (DOMAIN cacheMap')) \ {mutex[1].url} :
                Older(cacheMap[k], cacheMap[j])]_vars

-----------------------------------------------------------------------------
\* C6: a lock() call whose function has started (suspended in add's eviction
\* loop, or returned and not yet settled) is the oldest pending call: no
\* function starts before every call made earlier has settled.
C6_MutualExclusion ==
    \A i \in DOMAIN mutex : mutex[i].st # "queued" => i = 1

\* C6 witness: an add is suspended at its await while a later call waits
C6_Witness ==
    /\ Len(mutex) = 2
    /\ mutex[1].op = "add"
    /\ mutex[1].st = "await"
    /\ mutex[2].st = "queued"

-----------------------------------------------------------------------------
\* C4: a request that arrives after a request for the same targetUrl completed
\* as an admitted miss (no add and no clear since) sends nothing to the
\* origin and is answered X-Cache: HIT with the same body.
C4_HitAfterMiss ==
    \A r \in Slots :
        requests[r].expect # NoData
        => /\ requests[r].originRequests = 0
           /\ requests[r].pc \in Terminal
                => requests[r].xcache = "HIT" /\ requests[r].body = requests[r].expect

\* C7: when two requests for one url have both completed as admitted misses,
\* the cache holds one element for that url and index, list and byte counter
\* agree.
C7_ConcurrentMisses ==
    \A r1, r2 \in Slots :
        ( /\ r1 # r2
          /\ requests[r1].pc = "STORE_AND_SERVE" /\ requests[r2].pc = "STORE_AND_SERVE"
          /\ requests[r1].admitted /\ requests[r2].admitted
          /\ requests[r1].key = requests[r1].href
          /\ requests[r2].key = requests[r1].key
          /\ requests[r2].href = requests[r1].href )
        => /\ Cardinality({n \in ListNodes : heap[n].url = requests[r1].href}) = 1
           /\ MapHas(cacheMap, requests[r1].href)
           /\ ListNodes = MapNodes
           /\ cacheSize = SumSizes(MapNodes)

SchemeForms == {Url("", "example.test", "/y"), Url("http://", "example.test", "/y")}
SlashForm == Url("http://", "example.test", "/y/")

\* The entry a completed admitted miss for t1 stored is what find returns for t2
HitsEntryOf(t1, t2) ==
    MapHas(served, Str(t1))
    => /\ MapHas(cacheMap, Str(FormatUrl(t2)))
       /\ heap[cacheMap[Str(FormatUrl(t2))]].data = served[Str(t1)]

\* C10 as stated: example.test/y, http://example.test/y and
\* http://example.test/y/ are one cache key; a request with any of them hits
\* the entry stored by a request with any other.
C10_ThreeFormsOneKey ==
    \A t1, t2 \in SchemeForms \cup {SlashForm} : HitsEntryOf(t1, t2)

\* The scheme is added before the lookup: example.test/y and
\* http://example.test/y are looked up under one key, and a request with
\* either is served the entry a request with the other stored.
SchemeFormsShareKey ==
    /\ \A t1, t2 \in SchemeForms : HitsEntryOf(t1, t2)
    /\ \A r \in Slots :
          (requests[r].pc \notin {"idle", "ERROR"}
             /\ requests[r].target \in {Str(t) : t \in SchemeForms})
          => requests[r].key = "http://example.test/y"

-----------------------------------------------------------------------------
\* The step is the function of the oldest pending call of this kind running
\* from its start to its return
BodyRan(kind) ==
    /\ mutex # <<>>
    /\ mutex[1].op = kind
    /\ mutex[1].st = "queued"
    /\ Len(mutex') = Len(mutex)
    /\ mutex'[1].st = "returned"

\* C11: hits + misses equals the number of find calls completed since the
\* last clear; a find adds one to exactly one of the two counters, clear sets
\* both to zero and no other step changes them.
C11_FindsCounted ==
    /\ [](hits + misses = finds)
    /\ [][IF BodyRan("find")
          THEN \/ hits' = hits + 1 /\ misses' = misses
               \/ hits' = hits /\ misses' = misses + 1
          ELSE IF BodyRan("clear")
          THEN hits' = 0 /\ misses' = 0
          ELSE hits' = hits /\ misses' = misses]_vars

\* C11 witness: since the last clear one find has hit and one has missed,
\* while an add is pending
C11_Witness ==
    /\ hits = 1
    /\ misses = 1
    /\ \E i \in DOMAIN mutex : mutex[i].op = "add"

-----------------------------------------------------------------------------
\* C12: a find(u) that runs with u present returns a hit with the bytes stored
\* under u, adds one to hits and nothing to misses, leaves u's bytes and the
\* set of indexed urls as they were and keeps list and index in agreement; so
\* N such finds, in any interleaving, return identical bytes and add N to hits.
C12_ConcurrentHits ==
    [][(BodyRan("find") /\ MapHas(cacheMap, mutex[1].url))
        => LET u == mutex[1].url
           IN /\ mutex'[1].result = [kind |-> "hit", data |-> heap[cacheMap[u]].data]
              /\ hits' = hits + 1
              /\ misses' = misses
              /\ DOMAIN cacheMap' = DOMAIN cacheMap
              /\ heap'[cacheMap'[u]].data = heap[cacheMap[u]].data
              /\ cacheSize' = cacheSize
              /\ (ListNodes = MapNodes) => (ListNodes' = MapNodes')]_vars

\* C12 witness: two finds of one url were pending together; the first has hit
\* and the entry is still there for the second
C12_Witness ==
    /\ Len(mutex) >= 2
    /\ Returned(1, "find")
    /\ mutex[1].result.kind = "hit"
    /\ mutex[2].op = "find"
    /\ mutex[2].url = mutex[1].url
    /\ mutex[2].st = "queued"
    /\ ListNodes = MapNodes

\* C13: between operations, head is null iff tail is null iff the index is empty.
C13_EmptyTogether ==
    Quiescent => /\ (head = 0) <=> (tail = 0)
                 /\ (head = 0) <=> (cacheMap = EmptyMap)

\* C13 witness: an add evicted the only element and was admitted into the
\* emptied list
C13_Witness ==
    /\ \E i \in DOMAIN mutex :
          Returned(i, "add") /\ mutex[i].result.kind = "true" /\ mutex[i].evicted
    /\ Cardinality(ListNodes) = 1
    /\ head = tail

\* The element that ends the walk from head through next
LastNode == LET w == Walk(heap, head, <<>>) IN IF w = <<>> THEN 0 ELSE w[Len(w)]

\* C14: the list is well-formed: head.prev is null, tail.next is null,
\* x.next.prev = x for every element with a successor, following next from head
\* ends at null (no cycle) and the element it ends at is tail.
C14_WellFormed ==
    /\ head # 0 => heap[head].prev = 0
    /\ tail # 0 => heap[tail].next = 0
    /\ \A x \in Nodes :
          (heap[x] # NoElem /\ heap[x].next # 0) => heap[heap[x].next].prev = x
    /\ LastNode # 0 => heap[LastNode].next = 0
    /\ head # 0 => tail = LastNode

\* C14 witness: a find has moved an element of a three-element list to the front
C14_Witness ==
    /\ \E i \in DOMAIN mutex : Returned(i, "find") /\ mutex[i].moved
    /\ Cardinality(ListNodes) = 3

\* C15: when find has returned a hit, and when add has returned true, the
\* element found, respectively created, is the list head.
C15_HeadIsLatest ==
    \A i \in DOMAIN mutex :
        /\ (Returned(i, "find") /\ mutex[i].result.kind = "hit")
           => /\ head # 0
              /\ head = cacheMap[mutex[i].url]
              /\ heap[head].url = mutex[i].url
              /\ heap[head].data = mutex[i].result.data
        /\ (Returned(i, "add") /\ mutex[i].result.kind = "true")
           => /\ head # 0
              /\ head = cacheMap[mutex[i].url]
              /\ heap[head].url = mutex[i].url
              /\ heap[head].data = mutex[i].data

\* C15 witness: a find has hit an element that was not the head and put it in
\* front of the element a later add had created
C15_Witness ==
    \E i \in DOMAIN mutex :
        /\ Returned(i, "find")
        /\ mutex[i].moved
        /\ heap[head].next # 0
        /\ LET second == heap[heap[head].next]
           IN MapHas(fresh, second.url) /\ fresh[second.url] = heap[head].next

\* C16: an add whose data.length + byteLength(url) exceeds maxElementSize
\* returns false at once and changes nothing: index, list, cacheSize, hits and
\* misses stay as they were.
C16_OversizeRejected ==
    [][( /\ mutex # <<>>
         /\ mutex[1].op = "add"
         /\ mutex[1].st = "queued"
         /\ Len(mutex') = Len(mutex)
         /\ mutex'[1].st # "queued"
         /\ mutex[1].data.length + ByteLength(mutex[1].url) > maxElementSize )
        => /\ mutex'[1].st = "returned"
           /\ mutex'[1].result.kind = "false"
           /\ UNCHANGED cacheVars]_vars

\* C16 witness: an add for a url that is stored has returned false and the
\* stored entry is still indexed
C16_Witness ==
    \E i \in DOMAIN mutex :
        /\ Returned(i, "add")
        /\ mutex[i].result.kind = "false"
        /\ MapHas(cacheMap, mutex[i].url)

\* C17: when clear has returned, head and tail are null, the index is empty,
\* cacheSize, hits and misses are 0 and logStats reports zeros only.
C17_ClearEmpties ==
    \A i \in DOMAIN mutex :
        Returned(i, "clear")
        => /\ head = 0 /\ tail = 0
           /\ cacheMap = EmptyMap
           /\ cacheSize = 0
           /\ hits = 0 /\ misses = 0
           /\ LogStats = [size |-> 0, items |-> 0, hitRate |-> 0, hits |-> 0, misses |-> 0]

\* C17 witness: a clear has returned that found entries and counted finds
C17_Witness ==
    \E i \in DOMAIN mutex : Returned(i, "clear") /\ mutex[i].dropped

-----------------------------------------------------------------------------
\* C18: a request's find that runs when no add for its key has been admitted
\* since the last clear misses; a request that find handed an entry answers
\* X-Cache: HIT with that entry's bytes when it resumes, whatever has happened
\* to the cache in between.
C18_ClearInFlight ==
    /\ [](\A i \in DOMAIN mutex :
            (Returned(i, "find") /\ mutex[i].owner # 0 /\ ~MapHas(fresh, mutex[i].url))
            => mutex[i].result.kind = "miss")
    /\ [][\A r \in Slots :
            ( /\ requests[r].pc = "LOOKUP_DONE"
              /\ requests[r].found.kind = "hit"
              /\ requests'[r].pc # "LOOKUP_DONE" )
            => /\ requests'[r].pc = "SERVE_HIT"
               /\ requests'[r].xcache = "HIT"
               /\ requests'[r].body = requests[r].found.data]_vars

\* C18 witness: one request holds an entry it got from find, clear has emptied
\* the cache since, and the find of another request for the same key, the only
\* find since the clear, has missed
C18_Witness ==
    \E r1, r2 \in Slots :
        /\ requests[r1].pc = "LOOKUP_DONE"
        /\ requests[r1].found.kind = "hit"
        /\ requests[r2].pc = "LOOKUP_DONE"
        /\ requests[r2].found.kind = "miss"
        /\ requests[r2].key = requests[r1].key
        /\ cacheMap = EmptyMap
        /\ finds = 1

\* C19: a request whose origin fetch failed ends in ERROR with status 502 and
\* the underlying message.
C19_BadGateway ==
    \A r \in Slots :
        (requests[r].pc = "ERROR" /\ requests[r].originRequests > 0)
        => requests[r].status = 502 /\ requests[r].error = "origin error"

\* C20: a request whose targetUrl, after the scheme is added, does not parse
\* as an absolute url ends in ERROR with status 400 and the message
\* "Invalid target URL".
C20_InvalidTarget ==
    \A r \in Slots :
        (requests[r].pc \in Terminal /\ requests[r].target # "" /\ ~CanParse(requests[r].url))
        => /\ requests[r].pc = "ERROR"
           /\ requests[r].status = 400
           /\ requests[r].error = "Invalid target URL"

-----------------------------------------------------------------------------
\* C21: a /proxy request whose targetUrl is absent or empty ends in ERROR with
\* status 400 and the envelope naming "No target URL provided", with the CORS
\* headers on the response; it makes no cache call and no origin request, and
\* the step that answers it leaves the cache and the chain of calls alone.
C21_NoTargetUrl ==
    /\ [](\A r \in Slots :
            (requests[r].path = "/proxy" /\ requests[r].method # "OPTIONS"
                /\ requests[r].target = "")
            => /\ requests[r].pc = "ERROR"
               /\ requests[r].status = 400
               /\ Envelope(requests[r]) = [error |-> "No target URL provided",
                                           status |-> "error", statusCode |-> 400]
               /\ CorsHeaders \subseteq requests[r].headers
               /\ requests[r].originRequests = 0
               /\ requests[r].found = NoResult
               /\ \A i \in DOMAIN mutex : mutex[i].owner # r)
    /\ [][\A r \in Slots :
            (requests[r].pc = "idle" /\ requests'[r].path = "/proxy"
                /\ requests'[r].target = "")
            => UNCHANGED <<cacheVars, mutex>>]_vars

\* C21 witness: a /proxy request without targetUrl has been answered while
\* another request is at the origin
C21_Witness ==
    \E r, r2 \in Slots :
        /\ requests[r].path = "/proxy"
        /\ requests[r].target = ""
        /\ requests[r].pc = "ERROR"
        /\ requests[r2].pc = "FETCH"

-----------------------------------------------------------------------------
\* The add of request r has returned false and r has answered
Rejected(r) ==
    /\ requests[r].pc = "STORE_AND_SERVE"
    /\ requests[r].found.kind = "false"

\* The step in which the add of a request returns false
RejectStep(i) ==
    /\ i \in DOMAIN mutex
    /\ mutex[i].op = "add"
    /\ mutex[i].owner # 0
    /\ mutex[i].st = "queued"
    /\ Len(mutex') = Len(mutex)
    /\ mutex'[i].st = "returned"
    /\ mutex'[i].result.kind = "false"

\* A request that resumes after add returned false ends in STORE_AND_SERVE
RejectedEnds ==
    \A r \in Slots :
        ( /\ requests[r].pc = "STORE_DONE"
          /\ requests[r].found.kind = "false"
          /\ requests'[r].pc # "STORE_DONE" )
        => requests'[r].pc = "STORE_AND_SERVE"

\* A request whose body add rejected answers with the origin's status and the
\* whole body, X-Cache: MISS and no error
RejectedIsServed ==
    \A r \in Slots :
        Rejected(r)
        => /\ requests[r].status = requests[r].originStatus
           /\ requests[r].body = requests[r].originBody
           /\ requests[r].xcache = "MISS"
           /\ requests[r].error = ""
           /\ "X-Cache-Error" \notin requests[r].headers

\* C24 as stated: the request whose body add rejects is served as a miss, the
\* add changes nothing, and when it has returned as the only pending call the
\* key the request looked up is not in the index (the next request misses).
C24_NextRequestMisses ==
    /\ []RejectedIsServed
    /\ [][RejectedEnds]_vars
    /\ [][\A i \in 1..MaxQueue :
            RejectStep(i)
            => /\ UNCHANGED cacheVars
               /\ Len(mutex) = 1
                    => ~MapHas(cacheMap', requests[mutex[i].owner].key)]_vars

\* C24: a request whose origin body makes the entry larger than maxElementSize
\* ends in STORE_AND_SERVE with the origin's status, the whole body, X-Cache:
\* MISS and no error; its add returns false and changes nothing in the cache,
\* so the url is in the index afterwards exactly if it was there before.
C24_OversizeServed ==
    /\ []RejectedIsServed
    /\ [][RejectedEnds]_vars
    /\ [][\A i \in 1..MaxQueue :
            RejectStep(i)
            => /\ UNCHANGED cacheVars
               /\ MapHas(cacheMap', mutex[i].url) = MapHas(cacheMap, mutex[i].url)]_vars

\* C24 witness: a request has answered with a four-byte body that add rejected
\* and its key is not in the index
C24_Witness ==
    \E r \in Slots :
        /\ Rejected(r)
        /\ requests[r].originBody.length = 4
        /\ requests[r].body = requests[r].originBody
        /\ ~MapHas(cacheMap, requests[r].key)

-----------------------------------------------------------------------------
\* C25: a request whose cache.add ended with an exception still ends in
\* STORE_AND_SERVE: it answers with the origin's status and body, X-Cache: MISS
\* and X-Cache-Error: Failed to cache response, and no error envelope; no
\* other response carries X-Cache-Error.
C25_CacheWriteFailure ==
    /\ [](\A r \in Slots :
            /\ (requests[r].pc = "STORE_AND_SERVE" /\ requests[r].found.kind = "thrown")
               => /\ requests[r].status = requests[r].originStatus
                  /\ requests[r].body = requests[r].originBody
                  /\ requests[r].xcache = "MISS"
                  /\ "X-Cache-Error" \in requests[r].headers
                  /\ requests[r].xcacheError = "Failed to cache response"
                  /\ requests[r].error = ""
            /\ "X-Cache-Error" \in requests[r].headers
               => requests[r].found.kind = "thrown")
    /\ [][\A r \in Slots :
            ( /\ requests[r].pc = "STORE_DONE"
              /\ requests[r].found.kind = "thrown"
              /\ requests'[r].pc # "STORE_DONE" )
            => requests'[r].pc = "STORE_AND_SERVE"]_vars

\* C25 witness: a request whose add threw has answered with the four bytes the
\* origin sent
C25_Witness ==
    \E r \in Slots :
        /\ requests[r].pc = "STORE_AND_SERVE"
        /\ requests[r].found.kind = "thrown"
        /\ requests[r].body = [fill |-> 1, length |-> 4]
        /\ "X-Cache-Error" \in requests[r].headers

-----------------------------------------------------------------------------
\* The step in which request r is answered from the catch of handleRequest
Caught(r) == requests[r].pc # "ERROR" /\ requests'[r].pc = "ERROR"

-----------------------------------------------------------------------------
\* C29: once a request that missed has the key for cache.add (targetUrl.href),
\* that key is the string it gave to cache.find, which is also the value of
\* its X-Cache-Lookup header.
C29_OneKey ==
    \A r \in Slots :
        requests[r].href # "" => requests[r].href = requests[r].key

-----------------------------------------------------------------------------
\* The phase of the request pipeline a request is in
Phase(q) ==
    CASE q.pc = "idle" -> "PARSE"
      [] q.pc \in {"LOOKUP", "LOOKUP_DONE"} -> "LOOKUP"
      [] q.pc = "FETCH" -> "FETCH"
      [] q.pc \in {"BUFFER", "STORE", "STORE_DONE"} -> "BUFFER"
      [] OTHER -> q.pc

\* The transitions between phases
Transitions ==
    {<<"PARSE", "LOOKUP">>, <<"PARSE", "ERROR">>,
     <<"LOOKUP", "SERVE_HIT">>, <<"LOOKUP", "FETCH">>,
     <<"FETCH", "BUFFER">>, <<"FETCH", "ERROR">>,
     <<"BUFFER", "STORE_AND_SERVE">>}

\* C23: a request changes phase only along PARSE to LOOKUP or ERROR, LOOKUP to
\* SERVE_HIT or FETCH, FETCH to BUFFER or ERROR, BUFFER to STORE_AND_SERVE; in
\* SERVE_HIT, STORE_AND_SERVE and ERROR it takes no step (its connection ends
\* and the next request starts in PARSE).
C23_Transitions ==
    [][\A r \in Slots :
         \/ Phase(requests'[r]) = Phase(requests[r])
         \/ <<Phase(requests[r]), Phase(requests'[r])>> \in Transitions
         \/ requests[r].pc \in Terminal /\ requests'[r] = IdleRequest]_vars

-----------------------------------------------------------------------------
\* C30: when add suspends at `await this.removeLRU()`, the element removeLRU
\* unlinked from the tail was the one the index held under its url, and it
\* was not the element whose size this add had already subtracted as the
\* entry it replaces.
C30_EvictsIndexedTail ==
    [][( /\ mutex # <<>>
         /\ mutex[1].op = "add"
         /\ Len(mutex') = Len(mutex)
         /\ mutex[1].st \in {"queued", "await"}
         /\ mutex'[1].st = "await"
         /\ tail # 0 )
        => /\ MapHas(cacheMap, heap[tail].url)
           /\ cacheMap[heap[tail].url] = tail
           /\ mutex[1].st = "queued" => mutex[1].url # heap[tail].url]_vars

-----------------------------------------------------------------------------
\* C22: a request that waits for the response of an origin does not wait
\* forever: it reaches SERVE_HIT, STORE_AND_SERVE or ERROR whatever the origin
\* does.
C22_FetchEnds ==
    \A r \in Slots : (requests[r].pc = "FETCH") ~> (requests[r].pc \in Terminal)

-----------------------------------------------------------------------------
\* The request in r was answered without a call to the cache or to an origin
Unpiped(r) ==
    /\ requests[r].key = ""
    /\ requests[r].found = NoResult
    /\ requests[r].originRequests = 0
    /\ \A i \in DOMAIN mutex : mutex[i].owner # r

\* C26: every request is answered following the route table. OPTIONS on any
\* path, /proxy included: 204 with the default headers only, without cache or
\* origin. Otherwise `/`: 200, `/status`: 200, `/favicon.ico`: 204, any path
\* other than these and /proxy: 404 with the JSON envelope. A listening server
\* with a free connection accepts every such request.
C26_Routing ==
    \A r \in Slots :
        /\ (requests[r].pc # "idle" /\ requests[r].method = "OPTIONS")
           => /\ requests[r].pc = "DONE"
              /\ requests[r].status = 204
              /\ requests[r].headers = DefaultHeaders
              /\ Unpiped(r)
        /\ (requests[r].pc # "idle" /\ requests[r].method # "OPTIONS")
           => CASE requests[r].path \in {"/", "/status"} ->
                     requests[r].pc = "DONE" /\ requests[r].status = 200
                [] requests[r].path = "/favicon.ico" ->
                     requests[r].pc = "DONE" /\ requests[r].status = 204
                [] requests[r].path = "/proxy" -> TRUE
                [] OTHER ->
                     /\ requests[r].pc = "ERROR"
                     /\ requests[r].status = 404
                     /\ Envelope(requests[r]).statusCode = 404
                     /\ Envelope(requests[r]).status = "error"
                     /\ "Content-Type" \in requests[r].headers
                     /\ Unpiped(r)
        /\ (requests[r].pc = "idle" /\ server.listener = "listening")
           => \A m \in Methods, p \in Paths :
                  (m = "OPTIONS" \/ p # "/proxy") => ENABLED Request(r, m, p)

\* C26 witness: an OPTIONS request for /proxy was answered 204 and a GET for
\* a path outside the table was answered 404
C26_Witness ==
    \E r, r2 \in Slots :
        /\ requests[r].method = "OPTIONS"
        /\ requests[r].path = "/proxy"
        /\ requests[r].status = 204
        /\ requests[r2].method = "GET"
        /\ requests[r2].path = "/other"
        /\ requests[r2].status = 404

-----------------------------------------------------------------------------
\* C27: a server that is bound has its running flag set and has emitted
\* `ready`; a server that stop() has closed has the flag cleared; /status
\* answers "Connected" if the flag is set and "Disconnected" if not.
C27_Lifecycle ==
    /\ server.listener = "listening" => server.isRunning /\ "ready" \in server.events
    /\ server.listener = "closed" => ~server.isRunning
    /\ \A r \in Slots :
          (requests[r].path = "/status" /\ requests[r].pc = "DONE"
              /\ requests[r].method # "OPTIONS")
          => requests[r].text = IF server.isRunning THEN "Connected" ELSE "Disconnected"

\* The running flag is set while the server is bound and cleared when it is
\* closed; requests only arrive while it is bound, so /status reports the flag
\* as "Connected"
FlagFollowsListener ==
    /\ server.listener = "listening" => server.isRunning
    /\ server.listener = "closed" => ~server.isRunning
    /\ \A r \in Slots :
          (requests[r].path = "/status" /\ requests[r].pc = "DONE"
              /\ requests[r].method # "OPTIONS")
          => requests[r].text = "Connected"

-----------------------------------------------------------------------------
\* C35: the accounted sizes (length + byteLength(url)) of the elements linked
\* in the list add up to at most maxSize, and the list holds no more elements
\* than the index has entries.
C35_LinkedWithinCapacity ==
    /\ SumSizes(ListNodes) <= maxSize
    /\ Cardinality(ListNodes) <= Cardinality(DOMAIN cacheMap)

-----------------------------------------------------------------------------
\* C36: cacheSize is never negative.
C36_NonNegative == cacheSize >= 0

-----------------------------------------------------------------------------
\* The step in which the function of the oldest pending call of this kind runs
\* up to its first suspension or its return
BodyStep(kind) ==
    /\ mutex # <<>>
    /\ mutex[1].op = kind
    /\ mutex[1].st \in {"queued", "await"}
    /\ Len(mutex') = Len(mutex)
    /\ mutex'[1] # mutex[1]

\* C31: add never spins on an empty list and every pass of its loop shortens
\* the list: an empty list leaves room for any element add admits, every
\* suspension at `await this.removeLRU()` follows the unlinking of an element,
\* and a step of add ends either there or with add's return.
C31_AddTerminates ==
    /\ [](tail = 0 => cacheSize + maxElementSize <= maxSize)
    /\ [][BodyStep("add")
          => \/ mutex'[1].st = "returned"
             \/ /\ mutex'[1].st = "await"
                /\ tail # 0
                /\ Cardinality(ListNodes') < Cardinality(ListNodes)]_vars

\* C31 witness: an add has returned true after its loop evicted an element
C31_Witness ==
    \E i \in DOMAIN mutex :
        /\ Returned(i, "add")
        /\ mutex[i].evicted
        /\ mutex[i].result.kind = "true"

-----------------------------------------------------------------------------
\* The list from head to tail: url and bytes of each element
ListEntries ==
    LET w == Walk(heap, head, <<>>)
    IN [i \in 1..Len(w) |-> <<heap[w[i]].url, heap[w[i]].data>>]

\* What the index holds: url -> bytes
IndexEntries == [u \in DOMAIN cacheMap |-> heap[cacheMap[u]].data]

\* C33: a find leaves the index (urls and the bytes under each), cacheSize and
\* the elements of the list as they are.  A miss adds one to misses and changes
\* nothing else; a hit adds one to hits and moves the element found to the
\* head of the list, the others keeping their order.
C33_FindFrame ==
    [][BodyStep("find")
       => /\ IndexEntries' = IndexEntries
          /\ cacheSize' = cacheSize
          /\ maxSize' = maxSize
          /\ IF MapHas(cacheMap, mutex[1].url)
             THEN /\ hits' = hits + 1
                  /\ misses' = misses
                  /\ LET w == Walk(heap, head, <<>>)
                         p == Pos(w, cacheMap[mutex[1].url])
                     IN ListEntries' = <<ListEntries[p]>> \o SeqDrop(ListEntries, p)
             ELSE /\ misses' = misses + 1
                  /\ hits' = hits
                  /\ ListEntries' = ListEntries
                  /\ lruTimeTrack' = lruTimeTrack]_vars

\* C33 witness: a find has hit an element that was not at the head
C33_Witness ==
    \E i \in DOMAIN mutex :
        /\ Returned(i, "find")
        /\ mutex[i].result.kind = "hit"
        /\ mutex[i].moved
        /\ Cardinality(DOMAIN cacheMap) = 2

-----------------------------------------------------------------------------
\* The guards of RunFind, RunAdd, ResumeAdd, RunClear and Settle for the i-th
\* pending call: it can take its next step
CanStep(i) ==
    /\ i \in DOMAIN mutex
    /\ CASE mutex[i].st = "returned" -> TRUE
         [] mutex[i].st = "await" ->
              EnsureSpace(CacheState, mutex[i].data, mutex[i].url).room
         [] OTHER ->
              /\ LockReady(i)
              /\ mutex[i].op = "add"
                 => AddBody(CacheState, mutex[i].data, mutex[i].url).room

\* C32: a request that waits for its origin has no cache call pending, and
\* whenever a request waits for its origin the oldest pending cache call
\* (find, add or clear, of whichever caller) can take its next step.
C32_NoLockAcrossFetch ==
    /\ \A r \in Slots :
          requests[r].pc \in {"FETCH", "BUFFER"}
          => \A i \in DOMAIN mutex : mutex[i].owner # r
    /\ (mutex # <<>> /\ \E r \in Slots : requests[r].pc \in {"FETCH", "BUFFER"})
       => CanStep(1)

\* C32 witness: while one request waited for its origin, the add of another
\* request and a clear ran; both have returned
C32_Witness ==
    /\ Len(mutex) = 1
    /\ Returned(1, "clear")
    /\ mutex[1].overlap
    /\ \E r, r2 \in Slots :
          /\ requests[r].pc = "FETCH"
          /\ requests[r2].pc = "STORE_DONE"

C39_StatusNotReplayed ==
    /\ [](\A r \in Slots :
             requests[r].pc = "SERVE_HIT"
                => /\ requests[r].status = 200
                   /\ requests[r].contentType = "text/html"
                   /\ "Content-Type" \in requests[r].headers)
    /\ [][\A r \in Slots, code \in Statuses :
             (requests[r].pc = "BUFFER" /\ requests[r].originStatus = code
                /\ requests'[r].pc # "BUFFER")
                => /\ requests'[r].pc = "STORE"
                   /\ Len(mutex') = Len(mutex) + 1
                   /\ mutex'[Len(mutex')] =
                         Op("add", requests[r].href, requests'[r].originBody, r)]_vars

\* A body the origin sent with status 404 and Content-Type text/plain was
\* stored and served with these, and another request got the same body from
\* the cache with status 200 and text/html.
C39_Witness ==
    \E r, o \in Slots :
        /\ requests[o].pc = "STORE_AND_SERVE"
        /\ requests[o].status = 404
        /\ requests[o].contentType = "text/plain"
        /\ requests[o].admitted
        /\ requests[r].pc = "SERVE_HIT"
        /\ requests[r].key = requests[o].href
        /\ requests[r].body = requests[o].body
        /\ requests[r].status = 200
        /\ requests[r].contentType = "text/html"

\* C37: a cache call whose function throws rejects only its own caller and
\* releases the lock without touching the cache, and the chain is never
\* stuck: the oldest pending call can always take its next step, also after
\* a rejection.
C37_MutexSurvivesFailure ==
    /\ [](mutex # <<>> => CanStep(1))
    /\ [][\A r \in Slots :
             (requests'[r].found.kind = "thrown" /\ requests[r].found.kind # "thrown")
                => /\ mutex # <<>>
                   /\ mutex[1].owner = r
                   /\ mutex[1].result.kind = "thrown"
                   /\ mutex' = Tail(mutex)
                   /\ \A o \in Slots \ {r} : requests'[o] = requests[o]
                   /\ UNCHANGED cacheVars]_vars

\* One request has been handed the exception of its add, and a call of another
\* request that ran behind it has returned a result.
C37_Witness ==
    \E r \in Slots :
        /\ requests[r].found.kind = "thrown"
        /\ mutex # <<>>
        /\ mutex[1].owner \in Slots \ {r}
        /\ mutex[1].st = "returned"
        /\ mutex[1].result.kind \in {"hit", "miss", "true", "false"}

\* C38: a request in a terminal state has had the status line of its response
\* written exactly once, and a request not yet in a terminal state has had none
\* written; this includes the requests whose cache insert threw and those whose
\* first writeHead threw inside the 'end' handler.
C38_OneStatusLine ==
    \A r \in Slots :
        /\ requests[r].pc \in Terminal \cup {"DONE"} => requests[r].statusLines = 1
        /\ requests[r].pc \notin Terminal \cup {"DONE"} => requests[r].statusLines = 0

\* One request ended through the catch of the 'end' handler after its insert
\* had succeeded (the response write threw), another after its insert threw;
\* each has one status line.
C38_Witness ==
    \E r, o \in Slots :
        /\ requests[r].pc = "STORE_AND_SERVE"
        /\ requests[r].found.kind \in {"true", "false"}
        /\ "X-Cache-Error" \in requests[r].headers
        /\ requests[r].statusLines = 1
        /\ requests[o].pc = "STORE_AND_SERVE"
        /\ requests[o].found.kind = "thrown"
        /\ requests[o].statusLines = 1

-----------------------------------------------------------------------------
(* CacheStorageService: the cache of the browser client in localStorage *)

\* key.startsWith(this.prefix)
StartsWith(key, pre) == key.prefix = pre

\* localStorage.setItem, localStorage.removeItem
SetItem(ls, key, item) == [ls EXCEPT ![key] = item]
RemoveItem(ls, key) == [ls EXCEPT ![key] = NoItem]

\* keys.forEach(key => localStorage.removeItem(key))
RECURSIVE RemoveAll(_, _)
RemoveAll(ls, keys) ==
    IF keys = {}
    THEN ls
    ELSE LET k == CHOOSE x \in keys : TRUE
         IN RemoveAll(RemoveItem(ls, k), keys \ {k})

\* Object.keys(localStorage)
ObjectKeys(ls) == {k \in DOMAIN ls : ls[k] # NoItem}

\* The CacheEntry of saveToCache; `live` stands for entry.expiry > Date.now()
CacheEntry(url, data) == [url |-> url, response |-> data, live |-> TRUE]

DefaultStats == [hits |-> 0, misses |-> 0, totalRequests |-> 0, cacheSize |-> 0]

\* getStats: the stored statistics, or the defaults when none are stored
getStats(ls) == IF ls[StatsKey] # NoItem THEN ls[StatsKey] ELSE DefaultStats

\* getCacheSize: the number of keys that start with the prefix
getCacheSize(ls) == Cardinality({k \in ObjectKeys(ls) : StartsWith(k, prefix)})

\* updateStats: the counters are stepped, cacheSize is recomputed, and the
\* statistics are stored under prefix + 'stats'
updateStats(ls, isHit) ==
    LET stats == getStats(ls)
        newStats == [hits |-> IF isHit THEN stats.hits + 1 ELSE stats.hits,
                     misses |-> IF ~isHit THEN stats.misses + 1 ELSE stats.misses,
                     totalRequests |-> stats.totalRequests + 1,
                     cacheSize |-> getCacheSize(ls)]
    IN SetItem(ls, StatsKey, newStats)

BackendVars == <<cacheVars, mutex, server, requests, served>>

saveToCache(url, data) ==
    /\ getStats(localStorage).totalRequests < MaxRequests
    /\ localStorage' =
          updateStats(SetItem(localStorage, Key(prefix, url), CacheEntry(url, data)), FALSE)
    /\ UNCHANGED BackendVars

\* getFromCache: statistics are updated only when an unexpired entry is found
getFromCache(url) ==
    /\ getStats(localStorage).totalRequests < MaxRequests
    /\ LET item == localStorage[Key(prefix, url)]
       IN localStorage' = IF item # NoItem /\ item.live
                          THEN updateStats(localStorage, TRUE)
                          ELSE localStorage
    /\ UNCHANGED BackendVars

\* Date.now() passes the expiry of the entry of url
Expire(url) ==
    /\ localStorage[Key(prefix, url)] # NoItem
    /\ localStorage[Key(prefix, url)].live
    /\ localStorage' = [localStorage EXCEPT ![Key(prefix, url)].live = FALSE]
    /\ UNCHANGED BackendVars

\* clearCache: every key with the prefix is removed, then default statistics
\* are stored
clearCache ==
    /\ localStorage' =
          SetItem(RemoveAll(localStorage,
                            {k \in ObjectKeys(localStorage) : StartsWith(k, prefix)}),
                  StatsKey, DefaultStats)
    /\ UNCHANGED BackendVars

BrowserNext ==
    \/ \E u \in BrowserUrls, d \in Responses : saveToCache(u, d)
    \/ \E u \in BrowserUrls : getFromCache(u)
    \/ \E u \in BrowserUrls : Expire(u)
    \/ clearCache

BrowserSpec == Init /\ [][BrowserNext]_vars

\* The keys of the cached responses: those with the prefix other than the
\* statistics
EntryKeys == {k \in ObjectKeys(localStorage) : StartsWith(k, prefix) /\ k # StatsKey}

\* C40: whenever statistics are stored, their cacheSize is the number of
\* cached response entries, the statistics entry not counted (saveToCache,
\* getFromCache and clearCache are the only writers of either).
C40_CacheSizeCountsEntries ==
    localStorage[StatsKey] # NoItem
        => localStorage[StatsKey].cacheSize = Cardinality(EntryKeys)

\* After clearCache the four statistics are 0 and no cached entry remains.
ClearCacheResets ==
    [][(localStorage'[StatsKey] = DefaultStats /\ localStorage[StatsKey] # DefaultStats)
          => EntryKeys' = {}]_vars

====
